---- MODULE Spec2Model ----
(***************************************************************************)
(* Model of the stateless session tokens of humus-terra                    *)
(* (src/src/tokens.rs, src/src/encrypt.rs, src/src/error.rs).              *)
(*                                                                         *)
(* A request handler is modelled as one task at a time: it starts idle,    *)
(* performs one of the public operations (TokenConfig::set, Session::new,  *)
(* Session::from_request), may then call Session::to_response on the       *)
(* Session it holds, and finishes, dropping every value it owns.           *)
(* from_request and to_response hold the lock on CONFIG only inside their  *)
(* read sections and take one step per section; TokenConfig::set and       *)
(* ResponseConfig::set on other threads fall between those steps.  The     *)
(* only state that survives a handler is the two configurations.           *)
(*                                                                         *)
(* Optional values (Rust Option) are sequences of length 0 or 1.           *)
(***************************************************************************)
EXTENDS Integers, Sequences, FiniteSets, TLC

\* ------------------------------------------------------------------ bounds
MaxWho == 2
MaxNonce == 1
MaxKey == 2

\* ------------------------------------------------------- program constants
AES_NONCE_SIZE == 12
AES_TAG_SIZE == 16
REFRESH_DAYS == 90
ACCESS_MINUTES == 15
SECS_PER_MINUTE == 60
SECS_PER_DAY == 86400

\* ------------------------------------------------------------ Option type
None == <<>>
Some(x) == <<x>>
IsSome(o) == Len(o) = 1
Unwrap(o) == o[1]

\* ------------------------------------------------------------ input sets
WhoNames == <<"alice", "bob", "carol", "dave">>
Who == {WhoNames[i] : i \in 1..MaxWho}

KeyNames == <<"k1", "k2", "k3", "k4">>
Keys == {KeyNames[i] : i \in 1..MaxKey}

Nonces == 0..MaxNonce

\* Readings of the wall clock (Utc::now()): whole seconds and nanoseconds.
Clock == {[secs |-> 1700000000, nanos |-> n] : n \in {0, 500000000}}

\* Issue times of the tokens a client may hold, relative to the clock
\* reading above: either side of the 90 days (two of them older, so that
\* both tokens of a pair can be) and of the 15 minutes.  The
\* wall clock is not monotonic and several servers may share one passphrase,
\* so a token may be stamped after "now"; with a reading that carries
\* nanoseconds such a token is a fraction short of 16 minutes or 91 days away.
Offsets ==
    { -(92 * SECS_PER_DAY), -(91 * SECS_PER_DAY), -(89 * SECS_PER_DAY),
      -(16 * SECS_PER_MINUTE), -(14 * SECS_PER_MINUTE),
      0,
      16 * SECS_PER_MINUTE, 91 * SECS_PER_DAY }
Stamps == {1700000000 + o : o \in Offsets}

\* ------------------------------------------------------------------ Error
\* error.rs: an Error is nothing but its message.  A Result is modelled as
\* [status, msg, val]; a panic unwinds the calling task and is a third status.
ErrorFrom(message) == [status |-> "Err", msg |-> message, val |-> None]
OkVal(v) == [status |-> "Ok", msg |-> "", val |-> Some(v)]
Panic(message) == [status |-> "Panic", msg |-> message, val |-> None]

MSG_NOT_CONFIGURED == "Token system not configured"
MSG_MISSING_ACCESS == "Missing access token"
MSG_MISSING_REFRESH == "Missing refresh token"
MSG_OWNER_MISMATCH == "Token owner mismatched"
MSG_REFRESH_REUSED == "Refresh token reused"
MSG_REFRESH_EXPIRED == "Refresh token expired"
MSG_BASE64 == "base64::DecodeError"
MSG_AEAD == "aead::Error"
MSG_SERDE == "serde_json::Error"
MSG_SPLIT_AT == "panic: split_at: mid > len"
MSG_UNWRAP_NONE == "panic: called Option::unwrap() on a None value"
MSG_BLOCK_IN_RUNTIME == "panic: Cannot block the current thread from within a runtime"

\* ----------------------------------------------------------------- cipher
\* A byte vector is modelled by what the cipher can observe of it:
\*   len      its length in bytes,
\*   nonce    the value of its first AES_NONCE_SIZE bytes,
\*   sealedBy Some(<<key hash, nonce>>) when the rest is an intact AES-GCM
\*            ciphertext and tag made under that key hash and nonce,
\*            None when it is anything else (garbage, or a modified one),
\*   body     the plaintext the ciphertext hides.
\* A text is [b64, bytes]: whether it is valid standard base64, and the
\* bytes it then decodes to.

Sha256Digest(data) == <<"sha3_256", data>>

Utf8Len(text) == Len(text)

AeadEncrypt(key_hash, nonce, plaintext) ==
    [len |-> AES_NONCE_SIZE + Utf8Len(plaintext) + AES_TAG_SIZE,
     nonce |-> nonce,
     sealedBy |-> Some(<<key_hash, nonce>>),
     body |-> plaintext]

Base64Encode(bytes) == [b64 |-> TRUE, bytes |-> bytes]

Base64Decode(data) ==
    IF data.b64 THEN OkVal(data.bytes) ELSE ErrorFrom(MSG_BASE64)

\* Aes::encrypt; iv is the nonce drawn from OsRng.
AesEncrypt(plaintext, key, iv) ==
    LET key_hash == Sha256Digest(key)
        encrypted_data == AeadEncrypt(key_hash, iv, plaintext)
    IN  OkVal(Base64Encode(encrypted_data))

\* cipher.decrypt(nonce, ciphered_data) on the part after the nonce.
AeadDecrypt(key_hash, nonce, ciphertext) ==
    IF /\ ciphertext.len - AES_NONCE_SIZE >= AES_TAG_SIZE
       /\ ciphertext.sealedBy = Some(<<key_hash, nonce>>)
    THEN OkVal(ciphertext.body)
    ELSE ErrorFrom(MSG_AEAD)

\* Aes::decrypt.  slice::split_at panics when the vector is shorter than
\* AES_NONCE_SIZE.  String::from_utf8 cannot fail on an opened body: every
\* sealed body was a &str.
AesDecrypt(data, key) ==
    LET decoded == Base64Decode(data)
    IN  IF decoded.status # "Ok" THEN decoded
        ELSE LET ciphertext == Unwrap(decoded.val)
                 key_hash == Sha256Digest(key)
             IN  IF ciphertext.len < AES_NONCE_SIZE
                 THEN Panic(MSG_SPLIT_AT)
                 ELSE AeadDecrypt(key_hash, ciphertext.nonce, ciphertext)

\* ------------------------------------------------------------------ Token
TokenNew(who, timestamp, nonce) ==
    [who |-> who, timestamp |-> timestamp, nonce |-> nonce]

\* serde_json::to_string(&Token): the object's members in field order.
SerdeToString(token) ==
    << <<"who", token.who>>,
       <<"timestamp", token.timestamp>>,
       <<"nonce", token.nonce>> >>

JsonMembers(json, name) == {i \in 1..Len(json) : json[i][1] = name}

JsonGet(json, name) == json[CHOOSE i \in JsonMembers(json, name) : TRUE][2]

\* serde_json::from_str::<Token>: every field exactly once.
SerdeFromStr(json) ==
    IF \A name \in {"who", "timestamp", "nonce"} :
           Cardinality(JsonMembers(json, name)) = 1
    THEN OkVal(TokenNew(JsonGet(json, "who"),
                        JsonGet(json, "timestamp"),
                        JsonGet(json, "nonce")))
    ELSE ErrorFrom(MSG_SERDE)

\* CONFIG.blocking_read() / blocking_write(): tokio panics when the caller
\* is a thread that is driving asynchronous tasks (in_runtime).
BlockingPanics(in_runtime) == in_runtime

TokenConfigNew(key, secure_cookie) ==
    [key |-> key, secure_cookie |-> secure_cookie]

\* Token::from
TokenFrom(encrypted, config, in_runtime) ==
    IF BlockingPanics(in_runtime) THEN Panic(MSG_BLOCK_IN_RUNTIME)
    ELSE IF config = None THEN ErrorFrom(MSG_NOT_CONFIGURED)
    ELSE LET decrypted == AesDecrypt(encrypted, Unwrap(config).key)
         IN  IF decrypted.status # "Ok" THEN decrypted
             ELSE SerdeFromStr(Unwrap(decrypted.val))

\* Token::to_string
TokenToString(token, config, in_runtime, iv) ==
    IF BlockingPanics(in_runtime) THEN Panic(MSG_BLOCK_IN_RUNTIME)
    ELSE IF config = None THEN ErrorFrom(MSG_NOT_CONFIGURED)
    ELSE AesEncrypt(SerdeToString(token), Unwrap(config).key, iv)

\* AccessToken::who / RefreshToken::who
TokenWho(token) == token.who

\* AccessToken::timestamp / RefreshToken::timestamp.  from_timestamp(..)
\* is Some for every instant within chrono's range (262 000 years around
\* the epoch), which holds of every value Utc::now() returns.
TokenTimestamp(token) == token.timestamp

\* ---------------------------------------------------------------- chrono
\* Rust integer division truncates toward zero.
TruncDiv(a, b) == IF a >= 0 THEN a \div b ELSE -((-a) \div b)

\* timestamp.signed_duration_since(now).num_seconds(): the token's instant
\* has no sub-second part, now has; the difference is truncated toward zero.
NumSeconds(timestamp, now) ==
    LET d == timestamp - now.secs
    IN  IF now.nanos > 0 /\ d >= 1 THEN d - 1 ELSE d

NumDays(timestamp, now) == TruncDiv(NumSeconds(timestamp, now), SECS_PER_DAY)

NumMinutes(timestamp, now) ==
    TruncDiv(NumSeconds(timestamp, now), SECS_PER_MINUTE)

\* ---------------------------------------------------------------- Session
ACCESS_COOKIE == "__HT_ACCESS_TOKEN"
REFRESH_COOKIE == "__HT_REFRESH_TOKEN"

\* A request is its cookie jar: a function from the names of the cookies it
\* carries to their values.
MakeRequest(access, refresh) ==
    [name \in {n \in {ACCESS_COOKIE, REFRESH_COOKIE} :
                 IF n = ACCESS_COOKIE THEN IsSome(access) ELSE IsSome(refresh)}
       |-> IF name = ACCESS_COOKIE THEN Unwrap(access) ELSE Unwrap(refresh)]

\* Session::read_cookie
ReadCookie(key, request) ==
    IF key \in DOMAIN request THEN Some(request[key]) ELSE None

MakeSession(access_token, refresh_token) ==
    [access_token |-> access_token, refresh_token |-> refresh_token]

SessionNewTwoClockReads(who, now, nonce_a, nonce_r) ==
    MakeSession(TokenNew(who, now.secs, nonce_a),
                TokenNew(who, now.secs + 1, nonce_r))

\* Session::new; nonce_a and nonce_r are the two draws of rand::random().
SessionNew(who, now, nonce_a, nonce_r) ==
    LET timestamp == now.secs
    IN  MakeSession(TokenNew(who, timestamp, nonce_a),
                    TokenNew(who, timestamp, nonce_r))

OwnerMismatchSelf(access_token, refresh_token) ==
    TokenWho(access_token) # TokenWho(access_token)

\* tokens.rs:212
OwnerMismatch(access_token, refresh_token) ==
    TokenWho(access_token) # TokenWho(refresh_token)

RefreshReusedSwapped(access_token, refresh_token) ==
    TokenTimestamp(access_token) > TokenTimestamp(refresh_token)

\* tokens.rs:219
RefreshReused(access_token, refresh_token) ==
    TokenTimestamp(refresh_token) > TokenTimestamp(access_token)

\* tokens.rs:223
RefreshExpired(refresh_token, now) ==
    NumDays(TokenTimestamp(refresh_token), now) > REFRESH_DAYS

\* tokens.rs:227
AccessStale(access_token, now) ==
    NumMinutes(TokenTimestamp(access_token), now) > ACCESS_MINUTES

RotateAccessOnly(access_token, refresh_token, now, nonce_a, nonce_r) ==
    MakeSession(TokenNew(TokenWho(access_token), now.secs, nonce_a),
                refresh_token)

\* tokens.rs:228-230
Rotate(access_token, refresh_token, now, nonce_a, nonce_r) ==
    LET timestamp == now.secs
        new_access == TokenNew(TokenWho(access_token), timestamp, nonce_a)
    IN  MakeSession(new_access,
                    TokenNew(TokenWho(new_access), timestamp, nonce_r))

\* tokens.rs:210-236: the checks on a decoded pair.
ValidatePair(access_token, refresh_token, now, nonce_a, nonce_r) ==
    IF OwnerMismatch(access_token, refresh_token)
    THEN ErrorFrom(MSG_OWNER_MISMATCH)
    ELSE IF RefreshReused(access_token, refresh_token)
    THEN ErrorFrom(MSG_REFRESH_REUSED)
    ELSE IF RefreshExpired(refresh_token, now)
    THEN ErrorFrom(MSG_REFRESH_EXPIRED)
    ELSE IF AccessStale(access_token, now)
    THEN OkVal(Rotate(access_token, refresh_token, now, nonce_a, nonce_r))
    ELSE OkVal(MakeSession(access_token, refresh_token))

\* tokens.rs:202-204: the access cookie, decoded under the CONFIG that the
\* read section of Token::from sees.
DecodeAccess(request, config, in_runtime) ==
    LET access_token_str == ReadCookie(ACCESS_COOKIE, request)
    IN  IF access_token_str = None THEN ErrorFrom(MSG_MISSING_ACCESS)
        ELSE TokenFrom(Unwrap(access_token_str), config, in_runtime)

\* tokens.rs:206-208: the refresh cookie, in a second read section.
DecodeRefresh(request, config, in_runtime) ==
    LET refresh_token_str == ReadCookie(REFRESH_COOKIE, request)
    IN  IF refresh_token_str = None THEN ErrorFrom(MSG_MISSING_REFRESH)
        ELSE TokenFrom(Unwrap(refresh_token_str), config, in_runtime)

\* tokens.rs:206-236: what from_request does once the access credential is
\* decoded.
FromRequestRest(request, access_token, config, in_runtime, now, na, nr) ==
    LET refresh_token == DecodeRefresh(request, config, in_runtime)
    IN  IF refresh_token.status # "Ok" THEN refresh_token
        ELSE ValidatePair(access_token, Unwrap(refresh_token.val),
                          now, na, nr)

\* Session::from_request when its two read sections see config_a and
\* config_r.
SessionFromRequestUnder(request, config_a, config_r, in_runtime, now, na, nr) ==
    LET access_token == DecodeAccess(request, config_a, in_runtime)
    IN  IF access_token.status # "Ok" THEN access_token
        ELSE FromRequestRest(request, Unwrap(access_token.val), config_r,
                             in_runtime, now, na, nr)

\* One Set-Cookie header built by CookieBuilder.
SetCookie(name, value, http_only, secure) ==
    [header |-> "set-cookie", name |-> name, value |-> value,
     http_only |-> http_only, secure |-> secure]

\* ResponseConfig::new: no CORS header configured.
ResponseConfigNew ==
    [access_control_allow_origin |-> None,
     access_control_allow_methods |-> None,
     access_control_allow_headers |-> None]

\* One header that is not a cookie.
Header(name, value) == [header |-> name, value |-> value]

\* ResponseBuilder::new (response.rs:61-77): a builder holding the CORS
\* headers that are configured, in this order.
ResponseBuilderNew(response_config) ==
    (IF IsSome(response_config.access_control_allow_origin)
     THEN <<Header("access-control-allow-origin",
                   Unwrap(response_config.access_control_allow_origin))>>
     ELSE <<>>)
    \o (IF IsSome(response_config.access_control_allow_methods)
        THEN <<Header("access-control-allow-methods",
                      Unwrap(response_config.access_control_allow_methods))>>
        ELSE <<>>)
    \o (IF IsSome(response_config.access_control_allow_headers)
        THEN <<Header("access-control-allow-headers",
                      Unwrap(response_config.access_control_allow_headers))>>
        ELSE <<>>)

\* tokens.rs:243: CONFIG.blocking_read().as_ref().unwrap().secure_cookie
ReadSecureCookie(config, in_runtime) ==
    IF BlockingPanics(in_runtime) THEN Panic(MSG_BLOCK_IN_RUNTIME)
    ELSE IF config = None THEN Panic(MSG_UNWRAP_NONE)
    ELSE OkVal(Unwrap(config).secure_cookie)

\* tokens.rs:246-249: one .header(SET_COOKIE, ..) on the builder; the token
\* is encoded under the CONFIG its own read section sees.
AddCookie(builder, name, token, secure, config, in_runtime, iv) ==
    LET value == TokenToString(token, config, in_runtime, iv)
    IN  IF value.status # "Ok" THEN value
        ELSE OkVal(Append(builder,
                          SetCookie(name, Unwrap(value.val), TRUE, secure)))

\* ------------------------------------------------------------------ routes
\* A tree of Route implementations: route i has name RouteNames[i] and
\* children() returns RouteChildren[i].  A name and a path are sequences of
\* characters.  The tree of route.rs's tests (root "", its child "a", whose
\* child is "b") with one more child of the root, "ab".
RouteNames == << <<>>, <<"a">>, <<"b">>, <<"a", "b">> >>

RouteChildren == << <<2, 4>>, <<3>>, <<>>, <<>> >>

ROOT == 1

Routes == 1..Len(RouteNames)

Name(route) == RouteNames[route]

Children(route) == RouteChildren[route]

\* str::split(sep): the pieces between the separators, empty ones included.
RECURSIVE Split(_, _)
Split(text, sep) ==
    IF \A i \in 1..Len(text) : text[i] # sep THEN <<text>>
    ELSE LET i == CHOOSE i \in 1..Len(text) :
                      /\ text[i] = sep
                      /\ \A j \in 1..(i - 1) : text[j] # sep
         IN  <<SubSeq(text, 1, i - 1)>>
                 \o Split(SubSeq(text, i + 1, Len(text)), sep)

\* Iterator::skip(n)
Skip(parts, n) == SubSeq(parts, n + 1, Len(parts))

\* route.rs:62-69: the first child of current named part, if any.
FindChild(current, part) ==
    LET kids == Children(current)
        hits == {i \in 1..Len(kids) : Name(kids[i]) = part}
    IN  IF hits = {} THEN None
        ELSE Some(kids[CHOOSE i \in hits : \A j \in hits : i <= j])

\* route.rs:56-76: the loop over parts.
RECURSIVE Walk(_, _)
Walk(parts, current) ==
    IF parts = <<>> THEN Some(current)
    ELSE IF Len(Head(parts)) = 0 THEN Walk(Tail(parts), current)
    ELSE LET found == FindChild(current, Head(parts))
         IN  IF found = None THEN None
             ELSE Walk(Tail(parts), Unwrap(found))

\* match_route
MatchRoute(path, root) == Walk(Skip(Split(path, "/"), 1), root)

\* --------------------------------------------------- what a client can send
\* from_request never looks at a token's nonce (it is copied into the
\* Session or replaced), so one nonce stands for those of presented tokens.
Tokens == {TokenNew(w, t, 0) : w \in Who, t \in Stamps}

\* Envelopes made by this code under some passphrase.
SealedTexts ==
    {Unwrap(AesEncrypt(SerdeToString(t), k, 0).val) : t \in Tokens, k \in Keys}

\* Envelopes made by this code, by the passphrase they were sealed under.
SealedBy ==
    [k \in Keys |->
        {Unwrap(AesEncrypt(SerdeToString(t), k, 0).val) : t \in Tokens}]

\* A sealed envelope after a byte of its ciphertext or tag was changed: the
\* length and the nonce stay, the rest is no longer what the cipher made.
Tamper(text) == [text EXCEPT !.bytes.sealedBy = None]

\* One modified envelope for each passphrase.
TamperedTexts ==
    {Tamper(Unwrap(AesEncrypt(SerdeToString(
                TokenNew(WhoNames[1], 1700000000, 0)), k, 0).val)) : k \in Keys}

Junk(len) == [len |-> len, nonce |-> 0, sealedBy |-> None, body |-> <<>>]

\* Texts no key opens: not base64, shorter than a nonce (empty, 11 bytes),
\* a bare nonce, and a full-length envelope with a modified byte.
ForgedTexts ==
    {[b64 |-> FALSE, bytes |-> Junk(0)]}
    \cup {Base64Encode(Junk(len)) :
            len \in {0, AES_NONCE_SIZE - 1, AES_NONCE_SIZE,
                     AES_NONCE_SIZE + 3 + AES_TAG_SIZE}}
    \cup TamperedTexts

CookieValues == {None} \cup {Some(t) : t \in SealedTexts \cup ForgedTexts}

Requests == {MakeRequest(a, r) : a \in CookieValues, r \in CookieValues}

Configs == {TokenConfigNew(k, s) : k \in Keys, s \in BOOLEAN}

\* ---------------------------------------------------------- state machine
VARIABLES
    config,     \* CONFIG: Option<TokenConfig>, shared by all handlers
    responseConfig,  \* response.rs's CONFIG: the ResponseConfig
    pc,         \* the handler's position: "idle"; "decode_refresh" inside
                \* from_request; "called" once an operation returned;
                \* "build_response", "encode_access", "encode_refresh" inside
                \* to_response; "responded" once to_response ended
    locals,     \* local variables of the operation in progress: what each
                \* read section of CONFIG saw of the passphrase, the decoded
                \* access credential, the Secure flag read, the builder
    call,       \* the operation the handler performed, with its inputs
    outcome,    \* how that operation ended: [status, msg]
    session,    \* the Session the handler holds, if any
    response    \* the headers written by to_response, if any

VARIABLES
    rwlock,     \* the RwLock around CONFIG: [writer, readers, queue]
    threads     \* position of each thread that uses the lock

VARIABLES
    jar,        \* the cookies a client holds: the last ones the server set
    clock,      \* the wall clock, [secs, nanos]
    lastAt,     \* clock reading of the client's previous request, if any
    regular,    \* every renewal so far came 15 minutes to 90 days after
                \* the request before it
    ticks       \* number of clock changes so far

VARIABLES
    mainPc,        \* App::main: "start", "serving" or "returned"
    mainResult,    \* what main returned: "none" until then, "Ok" or "Err"
    configured,    \* routes whose configure was invoked, in order
    stopped,       \* routes whose shutdown was invoked, in order
    conns,         \* connections accepted and still open
    mapped,        \* the last request App::map looked up: [path, route]
    openAtReturn,  \* connections that were open when main returned
    waited         \* time main spent waiting for connections to close

handlerVars == <<pc, locals, call, outcome, session, response>>

lockVars == <<rwlock, threads>>

clientVars == <<jar, clock, lastAt, regular, ticks>>

appVars ==
    <<mainPc, mainResult, configured, stopped, conns, mapped, openAtReturn,
      waited>>

vars == <<config, responseConfig, handlerVars, lockVars, clientVars, appVars>>

NoRequest == MakeRequest(None, None)

\* A call of the handler: the operation, its argument, the clock reading it
\* made, the kind of thread it runs on, and the passphrase CONFIG held when
\* an operation that reads CONFIG was called.
MakeCall(op, request, now, in_runtime, passphrase) ==
    [op |-> op, request |-> request, now |-> now, in_runtime |-> in_runtime,
     passphrase |-> passphrase]

Outcome(result) == [status |-> result.status, msg |-> result.msg]

\* ------------------------------------------------- the lock around CONFIG
\* tokio::sync::RwLock is a fair semaphore: a request that cannot be granted
\* at once joins a FIFO queue, and nothing overtakes the head of the queue.
MaxReaders == 3

WRITER == 0
ReaderIds == 1..MaxReaders
ThreadIds == {WRITER} \cup ReaderIds

LockFree == [writer |-> FALSE, readers |-> {}, queue |-> <<>>]

\* Whether thread t, asking now or waiting at the head, can be given the lock.
Grantable(lock, t) ==
    IF t = WRITER THEN ~lock.writer /\ lock.readers = {}
    ELSE ~lock.writer

Granted(lock, t) ==
    IF t = WRITER THEN [lock EXCEPT !.writer = TRUE]
    ELSE [lock EXCEPT !.readers = @ \cup {t}]

\* Permits handed to the waiters at the head of the queue on a release.
RECURSIVE WakeWaiters(_)
WakeWaiters(lock) ==
    IF lock.queue # <<>> /\ Grantable(lock, Head(lock.queue))
    THEN WakeWaiters([Granted(lock, Head(lock.queue))
                        EXCEPT !.queue = Tail(lock.queue)])
    ELSE lock

Holders(lock) == lock.readers \cup (IF lock.writer THEN {WRITER} ELSE {})

NoLocals ==
    [reads |-> <<>>, access_token |-> None, secure |-> None, builder |-> <<>>]

\* What the read sections of Token::from and Token::to_string use of CONFIG.
KeyOf(c) == IF c = None THEN None ELSE Some(Unwrap(c).key)

InitHandler ==
    /\ pc = "idle"
    /\ locals = NoLocals
    /\ call = MakeCall("none", NoRequest, None, FALSE, None)
    /\ outcome = Outcome(OkVal(0))
    /\ session = None
    /\ response = None

InitLock ==
    /\ rwlock = LockFree
    /\ threads = [t \in ThreadIds |-> "start"]

InitClient ==
    /\ jar = NoRequest
    /\ clock = [secs |-> 1700000000, nanos |-> 0]
    /\ lastAt = None
    /\ regular = TRUE
    /\ ticks = 0

InitApp ==
    /\ mainPc = "start"
    /\ mainResult = "none"
    /\ configured = <<>>
    /\ stopped = <<>>
    /\ conns = {}
    /\ mapped = None
    /\ openAtReturn = {}
    /\ waited = 0

Init ==
    /\ config = None
    /\ responseConfig = ResponseConfigNew
    /\ InitHandler
    /\ InitLock
    /\ InitClient
    /\ InitApp

\* TokenConfig::set(TokenConfig::new(key, secure_cookie))
DoSetConfig(key, secure_cookie, in_runtime) ==
    /\ pc' = "called"
    /\ call' = MakeCall("set", NoRequest, None, in_runtime, None)
    /\ locals' = NoLocals
    /\ IF BlockingPanics(in_runtime)
       THEN /\ config' = config
            /\ outcome' = Outcome(Panic(MSG_BLOCK_IN_RUNTIME))
       ELSE /\ config' = Some(TokenConfigNew(key, secure_cookie))
            /\ outcome' = Outcome(OkVal(0))
    /\ UNCHANGED <<responseConfig, session, response>>

\* Session::new(who)
DoNewSession(who, now, in_runtime, nonce_a, nonce_r) ==
    /\ pc' = "called"
    /\ call' = MakeCall("new", NoRequest, Some(now), in_runtime, None)
    /\ locals' = NoLocals
    /\ outcome' = Outcome(OkVal(0))
    /\ session' = Some(SessionNew(who, now, nonce_a, nonce_r))
    /\ UNCHANGED <<config, responseConfig, response>>

\* Session::from_request(request), tokens.rs:202-204: up to the end of the
\* read section in which the access cookie is decoded.  An error returns.
DoFromRequestAccess(request, in_runtime) ==
    /\ call' = MakeCall("from_request", request, None, in_runtime,
                        KeyOf(config))
    /\ LET access_token == DecodeAccess(request, config, in_runtime)
       IN  /\ locals' =
                [NoLocals EXCEPT
                    !.reads = IF /\ ACCESS_COOKIE \in DOMAIN request
                                 /\ ~BlockingPanics(in_runtime)
                              THEN <<KeyOf(config)>> ELSE <<>>,
                    !.access_token = access_token.val]
           /\ IF access_token.status = "Ok"
              THEN pc' = "decode_refresh" /\ outcome' = Outcome(OkVal(0))
              ELSE pc' = "called" /\ outcome' = Outcome(access_token)
    /\ UNCHANGED <<config, responseConfig, session, response>>

\* tokens.rs:206-236: the rest of from_request: the read section in which
\* the refresh cookie is decoded, then Utc::now() and the checks.
DoFromRequestRefresh(now, nonce_a, nonce_r) ==
    /\ pc' = "called"
    /\ LET refresh_token ==
               DecodeRefresh(call.request, config, call.in_runtime)
           result ==
               FromRequestRest(call.request, Unwrap(locals.access_token),
                               config, call.in_runtime, now, nonce_a, nonce_r)
       IN  /\ outcome' = Outcome(result)
           /\ session' = result.val
           /\ call' = [call EXCEPT !.now = IF refresh_token.status = "Ok"
                                           THEN Some(now) ELSE None]
           /\ locals' = [locals EXCEPT
                            !.reads = IF REFRESH_COOKIE \in DOMAIN call.request
                                      THEN Append(@, KeyOf(config)) ELSE @]
    /\ UNCHANGED <<config, responseConfig, response>>

\* session.to_response(), tokens.rs:243: the read section that copies
\* secure_cookie.  in_runtime is whether the thread the call is made on
\* drives async tasks, whatever thread made the Session.  A panic ends the
\* operation.  response is the result of the latest to_response.
DoReadSecure(in_runtime) ==
    /\ call' = MakeCall("to_response", NoRequest, None, in_runtime,
                        KeyOf(config))
    /\ LET secure == ReadSecureCookie(config, in_runtime)
       IN  IF secure.status = "Ok"
           THEN /\ pc' = "build_response"
                /\ outcome' = Outcome(OkVal(0))
                /\ locals' = [NoLocals EXCEPT !.secure = secure.val]
           ELSE /\ pc' = "responded"
                /\ outcome' = Outcome(secure)
                /\ locals' = NoLocals
    /\ response' = None
    /\ UNCHANGED <<config, responseConfig, session>>

\* tokens.rs:245: ResponseBuilder::new() reads the ResponseConfig.
DoBuildResponse ==
    /\ IF BlockingPanics(call.in_runtime)
       THEN /\ pc' = "responded"
            /\ outcome' = Outcome(Panic(MSG_BLOCK_IN_RUNTIME))
            /\ locals' = locals
       ELSE /\ pc' = "encode_access"
            /\ outcome' = outcome
            /\ locals' = [locals EXCEPT
                            !.builder = ResponseBuilderNew(responseConfig)]
    /\ UNCHANGED <<config, responseConfig, call, session, response>>

\* tokens.rs:246-247: the access token is encoded in a read section of its
\* own and set as the first cookie.
DoEncodeAccess(iv) ==
    /\ LET added == AddCookie(locals.builder, ACCESS_COOKIE,
                              Unwrap(session).access_token,
                              Unwrap(locals.secure), config,
                              call.in_runtime, iv)
       IN  IF added.status = "Ok"
           THEN /\ pc' = "encode_refresh"
                /\ outcome' = outcome
                /\ locals' = [locals EXCEPT
                                !.builder = Unwrap(added.val),
                                !.reads = Append(@, KeyOf(config))]
           ELSE /\ pc' = "responded"
                /\ outcome' = Outcome(added)
                /\ locals' = locals
    /\ UNCHANGED <<config, responseConfig, call, session, response>>

\* tokens.rs:248-249: likewise the refresh token; to_response returns.
DoEncodeRefresh(iv) ==
    /\ pc' = "responded"
    /\ LET added == AddCookie(locals.builder, REFRESH_COOKIE,
                              Unwrap(session).refresh_token,
                              Unwrap(locals.secure), config,
                              call.in_runtime, iv)
       IN  /\ outcome' = Outcome(added)
           /\ response' = added.val
           /\ locals' = IF added.status = "Ok"
                        THEN [locals EXCEPT
                                !.builder = Unwrap(added.val),
                                !.reads = Append(@, KeyOf(config))]
                        ELSE locals
    /\ UNCHANGED <<config, responseConfig, call, session>>

\* The handler returns (or its task unwinds): everything it owned is dropped.
DoFinish ==
    /\ pc' = "idle"
    /\ locals' = NoLocals
    /\ call' = MakeCall("none", NoRequest, None, FALSE, None)
    /\ outcome' = Outcome(OkVal(0))
    /\ session' = None
    /\ response' = None
    /\ UNCHANGED <<config, responseConfig>>

\* The ResponseConfig values set: the initial one and one with two headers.
ResponseConfigs ==
    {ResponseConfigNew,
     [access_control_allow_origin |-> Some("*"),
      access_control_allow_methods |-> Some("GET"),
      access_control_allow_headers |-> None]}

\* TokenConfig::set by the thread that is about to handle a request.
SetConfig ==
    /\ pc = "idle"
    /\ \E key \in Keys, secure_cookie \in BOOLEAN, in_runtime \in BOOLEAN :
           DoSetConfig(key, secure_cookie, in_runtime)
    /\ UNCHANGED <<lockVars, clientVars, appVars>>

\* TokenConfig::set by another thread (one that may block), at any time: the
\* handler holds the lock only inside its read sections, so the write falls
\* before, between or after any of them.
SetConfigMeanwhile ==
    /\ \E key \in Keys, secure_cookie \in BOOLEAN :
           config' = Some(TokenConfigNew(key, secure_cookie))
    /\ UNCHANGED <<responseConfig, handlerVars, lockVars, clientVars, appVars>>

\* ResponseConfig::set(this), response.rs:46-48; an async write, at any time.
ResponseConfigSet ==
    /\ \E this \in ResponseConfigs : responseConfig' = this
    /\ UNCHANGED <<config, handlerVars, lockVars, clientVars, appVars>>

NewSession ==
    /\ pc = "idle"
    /\ \E who \in Who, now \in Clock, in_runtime \in BOOLEAN,
          nonce_a \in Nonces, nonce_r \in Nonces :
           DoNewSession(who, now, in_runtime, nonce_a, nonce_r)
    /\ UNCHANGED <<lockVars, clientVars, appVars>>

FromRequest ==
    /\ pc = "idle"
    /\ \E request \in Requests, in_runtime \in BOOLEAN :
           DoFromRequestAccess(request, in_runtime)
    /\ UNCHANGED <<lockVars, clientVars, appVars>>

\* rand::random() is called only by the two Token::new of a rotation
\* (tokens.rs:228-230): a call that does not rotate draws nothing, and one
\* value stands for the draws it does not make.
Rotates(now) ==
    LET refresh_token == DecodeRefresh(call.request, config, call.in_runtime)
    IN  /\ refresh_token.status = "Ok"
        /\ ValidatePair(Unwrap(locals.access_token),
                        Unwrap(refresh_token.val), now, 0, 0).status = "Ok"
        /\ AccessStale(Unwrap(locals.access_token), now)

NonceDraws(now) == IF Rotates(now) THEN Nonces ELSE {0}

FromRequestRefresh ==
    /\ pc = "decode_refresh"
    /\ \E now \in Clock :
        \E nonce_a \in NonceDraws(now), nonce_r \in NonceDraws(now) :
           DoFromRequestRefresh(now, nonce_a, nonce_r)
    /\ UNCHANGED <<lockVars, clientVars, appVars>>

\* to_response takes &self: the handler may call it again on the Session it
\* holds, unless a panic has unwound its task.
ToResponse ==
    /\ \/ pc = "called"
       \/ pc = "responded" /\ outcome.status # "Panic"
    /\ IsSome(session)
    /\ \E in_runtime \in BOOLEAN : DoReadSecure(in_runtime)
    /\ UNCHANGED <<lockVars, clientVars, appVars>>

BuildResponse ==
    /\ pc = "build_response"
    /\ DoBuildResponse
    /\ UNCHANGED <<lockVars, clientVars, appVars>>

EncodeAccess ==
    /\ pc = "encode_access"
    /\ \E iv \in Nonces : DoEncodeAccess(iv)
    /\ UNCHANGED <<lockVars, clientVars, appVars>>

EncodeRefresh ==
    /\ pc = "encode_refresh"
    /\ \E iv \in Nonces : DoEncodeRefresh(iv)
    /\ UNCHANGED <<lockVars, clientVars, appVars>>

Finish ==
    /\ pc \in {"called", "responded"}
    /\ DoFinish
    /\ UNCHANGED <<lockVars, clientVars, appVars>>

Next ==
    \/ SetConfig
    \/ SetConfigMeanwhile
    \/ ResponseConfigSet
    \/ NewSession
    \/ FromRequest
    \/ FromRequestRefresh
    \/ ToResponse
    \/ BuildResponse
    \/ EncodeAccess
    \/ EncodeRefresh
    \/ Finish

Spec == Init /\ [][Next]_vars

\* ------------------------------------------- threads contending for CONFIG
\* One thread calls TokenConfig::set while reader threads call Token::from /
\* Token::to_string; all of them are threads that are allowed to block.

\* A thread that asked for the lock and is still in the queue is blocked.
Waiting(t) == \E i \in 1..Len(rwlock.queue) : rwlock.queue[i] = t

\* blocking_read / blocking_write: take the lock at once if nobody is ahead
\* and it can be granted, otherwise join the queue and block.
Acquire(t) ==
    /\ threads[t] = "start"
    /\ threads' = [threads EXCEPT ![t] = "asked"]
    /\ rwlock' = IF rwlock.queue = <<>> /\ Grantable(rwlock, t)
                 THEN Granted(rwlock, t)
                 ELSE [rwlock EXCEPT !.queue = Append(@, t)]

\* CONFIG.blocking_write() in TokenConfig::set
WriterAcquire ==
    /\ Acquire(WRITER)
    /\ UNCHANGED <<config, responseConfig, handlerVars, clientVars, appVars>>

\* `*guard = Some(config)`, then the write guard is dropped.
WriterStore ==
    /\ threads[WRITER] = "asked"
    /\ rwlock.writer
    /\ \E c \in Configs :
        /\ config' = Some(c)
        /\ rwlock' = WakeWaiters([rwlock EXCEPT !.writer = FALSE])
        /\ threads' = [threads EXCEPT ![WRITER] = "done"]
    /\ UNCHANGED <<responseConfig, handlerVars, clientVars, appVars>>

\* CONFIG.blocking_read() in Token::from / Token::to_string / to_response
ReaderAcquire ==
    /\ \E r \in ReaderIds : Acquire(r)
    /\ UNCHANGED <<config, responseConfig, handlerVars, clientVars, appVars>>

\* The read guard is dropped when the reading function returns.
ReaderRelease ==
    /\ \E r \in ReaderIds :
        /\ threads[r] = "asked"
        /\ r \in rwlock.readers
        /\ rwlock' = WakeWaiters([rwlock EXCEPT !.readers = @ \ {r}])
        /\ threads' = [threads EXCEPT ![r] = "done"]
    /\ UNCHANGED <<config, responseConfig, handlerVars, clientVars, appVars>>

LockNext ==
    \/ WriterAcquire
    \/ WriterStore
    \/ ReaderAcquire
    \/ ReaderRelease

LockSpec == Init /\ [][LockNext]_vars

\* ------------------------------------------- a client that keeps its cookies
\* The server is configured once, at startup.  A client logs in, stores the
\* cookies of every response and presents exactly those on its next request.
\* Handlers run where blocking is allowed.  The wall clock moves between
\* requests, forward or (when it is adjusted) backward, at most once between
\* two requests.  No step here depends on the values drawn from the random
\* sources (token nonces, cipher nonces), so one value stands for them.
MaxTicks == 3

DRAW == 0

ClockSteps ==
    { -(16 * SECS_PER_MINUTE), 16 * SECS_PER_MINUTE, 90 * SECS_PER_DAY }

\* a - b > secs, for two clock readings.
Later(a, b, secs) ==
    \/ a.secs - b.secs > secs
    \/ a.secs - b.secs = secs /\ a.nanos > b.nanos

\* The cookies a response sets, as the client sends them back.
CookiesOf(headers) ==
    LET cookies == {i \in 1..Len(headers) : headers[i].header = "set-cookie"}
    IN  [name \in {headers[i].name : i \in cookies} |->
            headers[CHOOSE i \in cookies : headers[i].name = name].value]

\* Startup may set the ResponseConfig, before the TokenConfig.
ClientConfigureResponse ==
    /\ pc = "idle"
    /\ config = None
    /\ responseConfig = ResponseConfigNew
    /\ \E this \in ResponseConfigs \ {ResponseConfigNew} :
           responseConfig' = this
    /\ UNCHANGED <<config, handlerVars, lockVars, clientVars, appVars>>

ClientConfigure ==
    /\ pc = "idle"
    /\ config = None
    /\ \E key \in Keys, secure_cookie \in BOOLEAN :
           DoSetConfig(key, secure_cookie, FALSE)
    /\ UNCHANGED <<lockVars, clientVars, appVars>>

ClockTick ==
    /\ pc = "idle"
    /\ ticks < MaxTicks
    /\ IsSome(lastAt) => clock = Unwrap(lastAt)
    /\ \E step \in ClockSteps, nanos \in {0, 500000000} :
           clock' = [secs |-> clock.secs + step, nanos |-> nanos]
    /\ ticks' = ticks + 1
    /\ UNCHANGED <<config, responseConfig, handlerVars, lockVars, appVars, jar, lastAt, regular>>

\* Login: the handler calls Session::new.
ClientLogin ==
    /\ pc = "idle"
    /\ IsSome(config)
    /\ lastAt = None
    /\ \E who \in Who : DoNewSession(who, clock, FALSE, DRAW, DRAW)
    /\ lastAt' = Some(clock)
    /\ UNCHANGED <<lockVars, appVars, jar, clock, regular, ticks>>

\* A later request arrives with the jar: the handler calls
\* Session::from_request, which first decodes the access cookie.
ClientRenew ==
    /\ pc = "idle"
    /\ IsSome(lastAt)
    /\ DoFromRequestAccess(jar, FALSE)
    /\ lastAt' = Some(clock)
    /\ regular' = (/\ regular
                   /\ Later(clock, Unwrap(lastAt),
                            ACCESS_MINUTES * SECS_PER_MINUTE)
                   /\ ~Later(clock, Unwrap(lastAt),
                             REFRESH_DAYS * SECS_PER_DAY))
    /\ UNCHANGED <<lockVars, appVars, jar, clock, ticks>>

\* from_request goes on: the refresh cookie, the clock, the checks.
ClientRenewRefresh ==
    /\ pc = "decode_refresh"
    /\ DoFromRequestRefresh(clock, DRAW, DRAW)
    /\ UNCHANGED <<lockVars, clientVars, appVars>>

\* The handler's to_response, one read section at a time.
ClientRespond ==
    /\ \/ pc = "called" /\ IsSome(session) /\ DoReadSecure(FALSE)
       \/ pc = "build_response" /\ DoBuildResponse
       \/ pc = "encode_access" /\ DoEncodeAccess(DRAW)
       \/ pc = "encode_refresh" /\ DoEncodeRefresh(DRAW)
    /\ UNCHANGED <<lockVars, clientVars, appVars>>

\* The response reaches the client, which stores the cookies it sets.
ClientFinish ==
    /\ pc \in {"called", "responded"}
    /\ DoFinish
    /\ jar' = IF IsSome(response) THEN CookiesOf(Unwrap(response)) ELSE jar
    /\ UNCHANGED <<lockVars, appVars, clock, lastAt, regular, ticks>>

ClientNext ==
    \/ ClientConfigureResponse
    \/ ClientConfigure
    \/ ClockTick
    \/ ClientLogin
    \/ ClientRenew
    \/ ClientRenewRefresh
    \/ ClientRespond
    \/ ClientFinish

ClientSpec == Init /\ [][ClientNext]_vars

\* ------------------------------------------------------------- App::main
MaxPath == 4
MaxConns == 2
ShutdownDuration == 2

PathChars == {"/", "a", "b"}

Paths == UNION {[1..n -> PathChars] : n \in 0..MaxPath}

ConnIds == 1..MaxConns

\* configure_all / shutdown_all visit the root, then root.children().
VisitOrder(root) == <<root>> \o Children(root)

\* The visits made when the call on the fail-th route of the order returns
\* an error (`?` ends the function there); fail = 0 when none does.
Visited(order, fail) ==
    IF fail = 0 THEN order ELSE SubSeq(order, 1, fail)

\* Connections registered with `graceful`: the spawned serve_connection
\* futures are never passed to graceful.watch.
Watched(open) == {}

\* graceful.shutdown() completes once every watched connection has finished.
GracefulReady(open) == Watched(open) = {}

\* lib.rs:141-144: configure, then bind the listener.  bound is whether
\* TcpListener::bind succeeds.
AppStart ==
    /\ mainPc = "start"
    /\ \E fail \in 0..Len(VisitOrder(ROOT)), bound \in BOOLEAN :
        /\ configured' = Visited(VisitOrder(ROOT), fail)
        /\ IF fail = 0 /\ bound
           THEN mainPc' = "serving" /\ mainResult' = mainResult
           ELSE mainPc' = "returned" /\ mainResult' = "Err"
    /\ UNCHANGED <<stopped, conns, mapped, openAtReturn, waited>>
    /\ UNCHANGED <<config, responseConfig, handlerVars, lockVars, clientVars>>

\* lib.rs:155-169: accept a connection and spawn the task that serves it.
AppAccept ==
    /\ mainPc = "serving"
    /\ \E c \in ConnIds \ conns : conns' = conns \cup {c}
    /\ UNCHANGED <<mainPc, mainResult, configured, stopped, mapped,
                   openAtReturn, waited>>
    /\ UNCHANGED <<config, responseConfig, handlerVars, lockVars, clientVars>>

\* App::map: a request arrives on an open connection and is looked up.
AppMap ==
    /\ conns # {}
    /\ \E path \in Paths :
           mapped' = Some([path |-> path, route |-> MatchRoute(path, ROOT)])
    /\ UNCHANGED <<mainPc, mainResult, configured, stopped, conns,
                   openAtReturn, waited>>
    /\ UNCHANGED <<config, responseConfig, handlerVars, lockVars, clientVars>>

\* The peer closes a connection; its task ends.
AppClose ==
    /\ \E c \in conns : conns' = conns \ {c}
    /\ UNCHANGED <<mainPc, mainResult, configured, stopped, mapped,
                   openAtReturn, waited>>
    /\ UNCHANGED <<config, responseConfig, handlerVars, lockVars, clientVars>>

\* lib.rs:171-172: the select takes the signal branch.
AppSigint ==
    /\ mainPc = "serving"
    /\ mainPc' = "stopping"
    /\ UNCHANGED <<mainResult, configured, stopped, conns, mapped,
                   openAtReturn, waited>>
    /\ UNCHANGED <<config, responseConfig, handlerVars, lockVars, clientVars>>

\* lib.rs:147-151: ctrl_c() cannot install its handler; the expect panics
\* inside the select and main unwinds.
AppCtrlCFails ==
    /\ mainPc = "serving"
    /\ mainPc' = "returned"
    /\ mainResult' = "Panic"
    /\ openAtReturn' = conns
    /\ UNCHANGED <<configured, stopped, conns, mapped, waited>>
    /\ UNCHANGED <<config, responseConfig, handlerVars, lockVars, clientVars>>

\* lib.rs:173, route.rs:42-49: shutdown_all awaits the next route's
\* shutdown; ok is whether it returns Ok.  An error returns from main at
\* once; after the last route the loop is left.
AppShutdownRoute ==
    /\ mainPc = "stopping"
    /\ LET order == VisitOrder(ROOT)
           i == Len(stopped) + 1
       IN  \E ok \in BOOLEAN :
            /\ stopped' = Append(stopped, order[i])
            /\ IF ~ok
               THEN /\ mainPc' = "returned"
                    /\ mainResult' = "Err"
                    /\ openAtReturn' = conns
               ELSE /\ mainPc' = IF i = Len(order) THEN "draining"
                                 ELSE "stopping"
                    /\ mainResult' = mainResult
                    /\ openAtReturn' = openAtReturn
    /\ UNCHANGED <<configured, conns, mapped, waited>>
    /\ UNCHANGED <<config, responseConfig, handlerVars, lockVars, clientVars>>

\* lib.rs:179-188: main waits for graceful.shutdown() or the timer,
\* whichever completes first, and returns Ok.
AppDrain ==
    /\ mainPc = "draining"
    /\ mainPc' = "returned"
    /\ mainResult' = "Ok"
    /\ waited' = IF GracefulReady(conns) THEN 0 ELSE ShutdownDuration
    /\ openAtReturn' = conns
    /\ UNCHANGED <<configured, stopped, conns, mapped>>
    /\ UNCHANGED <<config, responseConfig, handlerVars, lockVars, clientVars>>

AppNext ==
    \/ AppStart
    \/ AppAccept
    \/ AppMap
    \/ AppClose
    \/ AppSigint
    \/ AppCtrlCFails
    \/ AppShutdownRoute
    \/ AppDrain

AppSpec == Init /\ [][AppNext]_vars

\* ------------------------------------------------- vocabulary of the claims
\* from_request has returned.
IsFromRequest == call.op = "from_request" /\ pc = "called"

Now == Unwrap(call.now)

\* CONFIG as the n-th read section of the operation saw it, reduced to what
\* Token::from and Token::to_string use of it: the passphrase.
ReadConfig(n) ==
    IF n > Len(locals.reads) \/ locals.reads[n] = None THEN None
    ELSE Some(TokenConfigNew(Unwrap(locals.reads[n]), FALSE))

\* Both operations handle the access credential in their first read section
\* of a passphrase, the refresh credential in their second.
ReadOf(name) == IF name = ACCESS_COOKIE THEN 1 ELSE 2

WasRead(name) == ReadOf(name) <= Len(locals.reads)

\* Every read section the operation made of the passphrase found CONFIG set.
Configured == \A n \in 1..Len(locals.reads) : locals.reads[n] # None

\* What the cookie `name` of the request decoded to.
Decoded(name) ==
    TokenFrom(call.request[name], ReadConfig(ReadOf(name)), call.in_runtime)

BothDecode ==
    /\ IsFromRequest
    /\ DOMAIN call.request = {ACCESS_COOKIE, REFRESH_COOKIE}
    /\ Decoded(ACCESS_COOKIE).status = "Ok"
    /\ Decoded(REFRESH_COOKIE).status = "Ok"

PresentedAccess == Unwrap(Decoded(ACCESS_COOKIE).val)

PresentedRefresh == Unwrap(Decoded(REFRESH_COOKIE).val)

SameOwner == PresentedAccess.who = PresentedRefresh.who

Causal == PresentedRefresh.timestamp <= PresentedAccess.timestamp

\* now - token.timestamp > secs, exactly (now carries nanoseconds).
OlderThan(token, now, secs) ==
    \/ now.secs - token.timestamp > secs
    \/ now.secs - token.timestamp = secs /\ now.nanos > 0

Accepted == BothDecode /\ outcome.status = "Ok" /\ IsSome(session)

Failed(message) == outcome = Outcome(ErrorFrom(message)) /\ session = None

\* C1: a decodable, same-owner, causal pair whose refresh credential is more
\* than 90 days old is rejected with "Refresh token expired".
C1_ExpiredRefreshRejected ==
    (/\ BothDecode
     /\ SameOwner
     /\ Causal
     /\ OlderThan(PresentedRefresh, Now, REFRESH_DAYS * SECS_PER_DAY))
    => Failed(MSG_REFRESH_EXPIRED)

\* C2: an accepted pair whose access credential is more than 15 minutes old
\* comes back as a new pair for the same owner, both stamped at now.
C2_StaleAccessRotated ==
    (/\ Accepted
     /\ OlderThan(PresentedAccess, Now, ACCESS_MINUTES * SECS_PER_MINUTE))
    => /\ Unwrap(session).access_token.who = PresentedAccess.who
       /\ Unwrap(session).refresh_token.who = PresentedAccess.who
       /\ Unwrap(session).access_token.timestamp = Now.secs
       /\ Unwrap(session).refresh_token.timestamp = Now.secs

\* C3: a decodable, same-owner pair whose refresh credential is stamped after
\* its access credential is rejected with "Refresh token reused".
C3_ReplayRejected ==
    (/\ BothDecode
     /\ SameOwner
     /\ PresentedRefresh.timestamp > PresentedAccess.timestamp)
    => Failed(MSG_REFRESH_REUSED)

\* C3 witness: access@t0 with refresh@t1, t1 > t0, same owner, was rejected.
C3_Witness ==
    /\ BothDecode
    /\ SameOwner
    /\ PresentedRefresh.timestamp > PresentedAccess.timestamp
    /\ Failed(MSG_REFRESH_REUSED)

\* C4: every Session that exists names one owner in both credentials and its
\* access credential is not stamped before its refresh credential.
C4_SessionInvariant ==
    IsSome(session) =>
        /\ Unwrap(session).access_token.who = Unwrap(session).refresh_token.who
        /\ Unwrap(session).access_token.timestamp
               >= Unwrap(session).refresh_token.timestamp

\* C4 witness: from_request returned a Session other than the presented pair
\* (a rotation), the presented refresh credential being stamped after now.
C4_Witness ==
    /\ Accepted
    /\ Unwrap(session) # MakeSession(PresentedAccess, PresentedRefresh)
    /\ PresentedRefresh.timestamp > Now.secs
    /\ Unwrap(session).access_token.timestamp
           >= Unwrap(session).refresh_token.timestamp

\* C5: a decodable pair with two different owners is rejected with "Token
\* owner mismatched" and yields no Session, whatever its timestamps.
C5_OwnerMismatchRejected ==
    (/\ BothDecode
     /\ PresentedAccess.who # PresentedRefresh.who)
    => Failed(MSG_OWNER_MISMATCH)

\* C5 witness: owners differ and the timestamps alone would also have been
\* refused (refresh stamped after access); the owner error is reported.
C5_Witness ==
    /\ BothDecode
    /\ PresentedAccess.who # PresentedRefresh.who
    /\ PresentedRefresh.timestamp > PresentedAccess.timestamp
    /\ Failed(MSG_OWNER_MISMATCH)

\* C6: an accepted pair whose access credential is at most 15 minutes old is
\* returned unchanged: owner, timestamps and nonces.
C6_FreshAccessUnchanged ==
    (/\ Accepted
     /\ ~OlderThan(PresentedAccess, Now, ACCESS_MINUTES * SECS_PER_MINUTE))
    => Unwrap(session) = MakeSession(PresentedAccess, PresentedRefresh)

\* C7: with configuration set, a decodable, same-owner, causal pair whose
\* refresh credential is at most 90 days old is accepted.
C7_ValidContentAccepted ==
    (/\ Configured
     /\ BothDecode
     /\ SameOwner
     /\ Causal
     /\ ~OlderThan(PresentedRefresh, Now, REFRESH_DAYS * SECS_PER_DAY))
    => outcome.status = "Ok"

\* C8: while configuration was never set, a credential operation (from_request
\* on a request carrying both cookies, to_response) ends by returning the
\* "Token system not configured" error.  Stated for calls made outside the
\* runtime, where reading CONFIG does not itself abort.
C8_UnconfiguredReturnsError ==
    (/\ config = None
     /\ ~call.in_runtime
     /\ \/ call.op = "to_response"
        \/ IsFromRequest /\ DOMAIN call.request = {ACCESS_COOKIE, REFRESH_COOKIE})
    => outcome = Outcome(ErrorFrom(MSG_NOT_CONFIGURED))

\* C9: when Aes::decrypt is reached with an access cookie that is not base64
\* or decodes to fewer than 12 bytes, from_request returns a decode error.
C9_ShortEnvelopeIsDecodeError ==
    (/\ IsFromRequest
     /\ Configured
     /\ ~call.in_runtime
     /\ ACCESS_COOKIE \in DOMAIN call.request
     /\ \/ ~call.request[ACCESS_COOKIE].b64
        \/ call.request[ACCESS_COOKIE].bytes.len < AES_NONCE_SIZE)
    => Failed(MSG_BASE64)

\* C10: a request lacking either cookie is rejected as a missing credential,
\* whatever the other cookie holds.  Stated for a configured process and a
\* call made outside the runtime.
C10_AbsentFieldIsMissingCredential ==
    (/\ IsFromRequest
     /\ Configured
     /\ ~call.in_runtime
     /\ DOMAIN call.request # {ACCESS_COOKIE, REFRESH_COOKIE})
    => \/ Failed(MSG_MISSING_ACCESS)
       \/ Failed(MSG_MISSING_REFRESH)


\* C11: a reader of CONFIG never waits while the write lock is held.
C11_ReadersNeverWaitForWriter ==
    \A r \in ReaderIds : ~(Waiting(r) /\ rwlock.writer)

\* C12: every pair the server mints (Session::new, rotation) and every
\* Session accepted from a client that presents the last pair it was given
\* has one owner and access.timestamp = refresh.timestamp.
C12_PairsStampedTogether ==
    IsSome(session) =>
        /\ Unwrap(session).access_token.timestamp
               = Unwrap(session).refresh_token.timestamp
        /\ Unwrap(session).access_token.who = Unwrap(session).refresh_token.who

\* C12 witness: the client's stored pair was accepted and rotated.
C12_Witness ==
    /\ Accepted
    /\ call.request = jar
    /\ AccessStale(PresentedAccess, Now)
    /\ Unwrap(session).access_token.timestamp = Now.secs
    /\ Unwrap(session).refresh_token.timestamp = Now.secs
    /\ PresentedAccess.timestamp # Now.secs

\* C16: while the client renews regularly (each request more than 15 minutes
\* and at most 90 days after the one before), no request is rejected as
\* expired and the refresh credential returned is stamped at the request.
C16_RenewalRestartsRefreshClock ==
    (/\ IsFromRequest
     /\ regular
     /\ DOMAIN call.request = {ACCESS_COOKIE, REFRESH_COOKIE})
    => /\ outcome.msg # MSG_REFRESH_EXPIRED
       /\ IsSome(session)
       /\ Unwrap(session).refresh_token.timestamp = Now.secs

\* to_response has ended, CONFIG having been set when it was called.
Responded ==
    /\ call.op = "to_response"
    /\ pc = "responded"
    /\ IsSome(call.passphrase)

Headers == Unwrap(response)

\* The Set-Cookie fields of the response, in the order written.
Cookies == SelectSeq(Headers, LAMBDA h : h.header = "set-cookie")

\* The envelopes Token::to_string can produce for the credential `name`
\* under the passphrase its read section saw.
EncodingsOf(name, token) ==
    {Unwrap(TokenToString(token, ReadConfig(ReadOf(name)), FALSE, iv).val) :
        iv \in Nonces}

\* C13: with configuration set, to_response writes exactly two Set-Cookie
\* fields: __HT_ACCESS_TOKEN carrying the encoded access credential, then
\* __HT_REFRESH_TOKEN carrying the encoded refresh credential, both HttpOnly,
\* both Secure exactly when the secure_cookie flag of the configuration is
\* set.  Other header fields may precede them.
C13_TwoCredentialCookies ==
    Responded =>
        /\ outcome.status = "Ok"
        /\ IsSome(response)
        /\ Len(Cookies) = 2
        /\ Cookies[1].name = ACCESS_COOKIE
        /\ Cookies[2].name = REFRESH_COOKIE
        /\ Cookies[1].value
               \in EncodingsOf(ACCESS_COOKIE, Unwrap(session).access_token)
        /\ Cookies[2].value
               \in EncodingsOf(REFRESH_COOKIE, Unwrap(session).refresh_token)
        /\ \A i \in 1..2 :
            /\ Cookies[i].http_only
            /\ Cookies[i].secure = Unwrap(locals.secure)

\* What Token::from, on the thread of the call, decodes from the cookie
\* `name` of the response under the passphrase the cookie was written under.
ReadBack(name) ==
    TokenFrom(CookiesOf(Headers)[name], ReadConfig(ReadOf(name)),
              call.in_runtime)

\* C14: with configuration set, to_response encodes both credentials, and
\* each envelope it writes decodes, under the same passphrase, to a Token
\* with the who and the timestamp of the credential it was made from.
C14_RoundTrip ==
    Responded =>
        /\ IsSome(response)
        /\ ReadBack(ACCESS_COOKIE).status = "Ok"
        /\ ReadBack(REFRESH_COOKIE).status = "Ok"
        /\ Unwrap(ReadBack(ACCESS_COOKIE).val).who
               = Unwrap(session).access_token.who
        /\ Unwrap(ReadBack(ACCESS_COOKIE).val).timestamp
               = Unwrap(session).access_token.timestamp
        /\ Unwrap(ReadBack(REFRESH_COOKIE).val).who
               = Unwrap(session).refresh_token.who
        /\ Unwrap(ReadBack(REFRESH_COOKIE).val).timestamp
               = Unwrap(session).refresh_token.timestamp

\* The passphrase in force for the cookie `name`: the one its read section
\* saw, or, when from_request did not get that far, the one CONFIG held when
\* from_request was called.
PassphraseFor(name) ==
    IF WasRead(name) THEN locals.reads[ReadOf(name)] ELSE call.passphrase

\* An envelope that passphrase must not open: sealed under another
\* passphrase, or sealed and then modified.
Unauthentic(name) ==
    /\ IsSome(PassphraseFor(name))
    /\ \/ \E k \in Keys \ {Unwrap(PassphraseFor(name))} :
              call.request[name] \in SealedBy[k]
       \/ call.request[name] \in TamperedTexts

\* What Token::from, on the thread of the call, yields for the cookie `name`
\* under that passphrase.
DecodedInForce(name) ==
    TokenFrom(call.request[name],
              Some(TokenConfigNew(Unwrap(PassphraseFor(name)), FALSE)),
              call.in_runtime)

\* C15: an envelope sealed under another passphrase, or modified after it was
\* sealed, decodes to an authentication error and never to a Token; a request
\* whose access cookie is one, or whose access cookie decodes and whose
\* refresh cookie is one, fails with that error and yields no Session.
C15_UnauthenticEnvelopeRejected ==
    IsFromRequest =>
        /\ \A name \in DOMAIN call.request :
               Unauthentic(name)
                   => DecodedInForce(name) = ErrorFrom(MSG_AEAD)
        /\ (/\ ACCESS_COOKIE \in DOMAIN call.request
            /\ Unauthentic(ACCESS_COOKIE))
           => Failed(MSG_AEAD)
        /\ (/\ DOMAIN call.request = {ACCESS_COOKIE, REFRESH_COOKIE}
            /\ Decoded(ACCESS_COOKIE).status = "Ok"
            /\ Unauthentic(REFRESH_COOKIE))
           => Failed(MSG_AEAD)

\* The pieces of a path that name something.
Segments(path) == SelectSeq(Split(path, "/"), LAMBDA part : part # <<>>)

\* From route, descend to the child named by each segment in turn.
RECURSIVE Descend(_, _)
Descend(segments, route) ==
    IF segments = <<>> THEN Some(route)
    ELSE LET found == FindChild(route, Head(segments))
         IN  IF found = None THEN None
             ELSE Descend(Tail(segments), Unwrap(found))

\* C17: match_route(path, root) is the route reached from root by descending
\* along every non-empty '/'-separated segment of path, and None exactly when
\* some segment names no child.
C17_MatchDescendsEverySegment ==
    IsSome(mapped) =>
        Unwrap(mapped).route = Descend(Segments(Unwrap(mapped).path), ROOT)

\* C18: when main returns after SIGINT having waited less than
\* shutdown_duration, no connection was open at that moment.
C18_ReturnsEarlyOnlyWhenDrained ==
    (/\ mainPc = "returned"
     /\ mainResult = "Ok"
     /\ stopped # <<>>
     /\ waited < ShutdownDuration)
    => openAtReturn = {}

\* The first check that fails for a decoded pair, or "" when none does:
\* the owners differ; the refresh credential is stamped after the access
\* credential; the refresh credential is older than 90 days.
FirstFailure ==
    IF ~SameOwner THEN MSG_OWNER_MISMATCH
    ELSE IF ~Causal THEN MSG_REFRESH_REUSED
    ELSE IF OlderThan(PresentedRefresh, Now, REFRESH_DAYS * SECS_PER_DAY)
    THEN MSG_REFRESH_EXPIRED
    ELSE ""

\* C19: for a decoded pair from_request reports the first failing check in
\* the order owner, causality, expiry: different owners are reported as an
\* owner mismatch whatever else fails, a same-owner pair stamped out of
\* order as reuse even when its refresh credential is older than 90 days,
\* and otherwise a refresh credential older than 90 days as expired.
C19_FirstFailingCheckReported ==
    BothDecode =>
        /\ outcome.msg = FirstFailure
        /\ (FirstFailure # "") => Failed(FirstFailure)

\* The clock reading of the operation, if it made one.
NowOr(now) == IF now = None THEN [secs |-> 0, nanos |-> 0] ELSE Unwrap(now)

\* Every read section from_request made of CONFIG saw the passphrase CONFIG
\* held when from_request was called: no TokenConfig::set fell in between.
Undisturbed ==
    \A n \in 1..Len(locals.reads) : locals.reads[n] = call.passphrase

ConfigAtCall ==
    IF call.passphrase = None THEN None
    ELSE Some(TokenConfigNew(Unwrap(call.passphrase), FALSE))

\* C20: with configuration set, the outcome with which from_request returns
\* is a function of the presented cookies, the passphrase and the time only:
\* whatever happened before and whatever thread runs the call, it is the
\* outcome this presentation has on a thread that may block.
C20_Stateless ==
    (IsFromRequest /\ IsSome(call.passphrase) /\ Undisturbed) =>
        outcome = Outcome(SessionFromRequestUnder(
                              call.request, ConfigAtCall, ConfigAtCall,
                              FALSE, NowOr(call.now), 0, 0))

\* The routes of the tree below (and including) route, at any depth.
RECURSIVE TreeOf(_)
TreeOf(route) ==
    {route} \cup UNION {TreeOf(Children(route)[i]) :
                           i \in 1..Len(Children(route))}

InvokedOn(visits) == {visits[i] : i \in 1..Len(visits)}

\* C21: while main serves (and whenever a request is looked up), configure
\* has been invoked on every route of the tree rooted at root_route, so on
\* every route match_route returns; after a SIGINT whose shutdown calls all
\* succeed, shutdown has been invoked on every such route; and main serves
\* only if no configure call failed.
C21_EveryRouteConfiguredAndShutDown ==
    /\ (mainPc = "serving" \/ conns # {} \/ IsSome(mapped))
          => TreeOf(ROOT) \subseteq InvokedOn(configured)
    /\ (IsSome(mapped) /\ IsSome(Unwrap(mapped).route))
          => Unwrap(Unwrap(mapped).route) \in InvokedOn(configured)
    /\ (mainPc = "returned" /\ mainResult = "Ok")
          => TreeOf(ROOT) \subseteq InvokedOn(stopped)

====
